---- MODULE Spec2Model ----
(***************************************************************************)
(* The portfolio backend of src/server.js: file uploads with a metadata    *)
(* record per blob, and a contact form that stores a message and mails it. *)
(* The file holds two variants of the server, one after the other: the     *)
(* basic one (lines 1-131) and the enhanced one (lines 132-433).  The      *)
(* variable `variant` says which of the two is running.                    *)
(*                                                                         *)
(* One action is one run of a handler between two awaits: the awaited      *)
(* operation takes effect and the handler runs on, synchronously, to its   *)
(* next await or to its response.  Requests interleave only at awaits.     *)
(*                                                                         *)
(* Line 202 builds the enhanced variant's mail transport with              *)
(* nodemailer.createTransporter; the model takes the transport as built,   *)
(* a relay whose sendMail succeeds or fails, as in the basic variant.      *)
(***************************************************************************)
EXTENDS Integers, Sequences, FiniteSets, TLC

\* Bounds of the model.
MaxContactReqs == 2
MaxFileReqs == 2
MaxTime == 1

VARIABLES
  variant,    \* "basic" (lines 1-131) or "enhanced" (lines 132-433)
  contacts,   \* the Contact collection, in insertion order
  sends,      \* every transporter.sendMail call made, in order
  creqs,      \* the requests to /api/contact and /api/contacts
  now,        \* Date.now()
  nextId,     \* the next _id the File collection assigns
  files,      \* the File collection: _id -> document
  disk,       \* uploads/: stored name -> the upload request whose bytes it holds
  unlinked,   \* history: the stored names a handler has removed from uploads/
  reqs        \* the requests to /api/upload and /api/files

vars == <<variant, contacts, sends, creqs, now, nextId, files, disk, unlinked, reqs>>
contactVars == <<contacts, sends, creqs>>
fileVars == <<now, nextId, files, disk, unlinked, reqs>>

Variants == {"basic", "enhanced"}

----------------------------------------------------------------------------
\* JSON values of a request body: a field is absent (undefined), a string or
\* a number.  v is the value's text.
Undefined == [t |-> "undefined", v |-> ""]
Str(s) == [t |-> "string", v |-> s]
Num(s) == [t |-> "number", v |-> s]

\* JavaScript truthiness, as `!name` reads it.
Truthy(x) == \/ x.t = "string" /\ x.v # ""
             \/ x.t = "number" /\ x.v # "0"

\* `!name || !email || !message` without the test of message.
MissingRequiredNoMessage(n, e, m) == ~Truthy(n) \/ ~Truthy(e)

\* if (!name || !email || !message) return res.status(400)
MissingRequired(n, e, m) == ~Truthy(n) \/ ~Truthy(e) \/ ~Truthy(m)

\* message.replace(/\n/g, '<br>') inside the html template: only a string has
\* a replace method; on a number the call is a TypeError, raised while the
\* argument of sendMail is built, before sendMail is called.
HtmlThrows(m) == m.t # "string"

\* Mongoose casts a String path: a number is stored as its text.
CastString(x) == IF x.t = "undefined" THEN Undefined ELSE Str(x.v)

NameValues == {Undefined, Str(""), Str("A")}
EmailValues == {Undefined, Str(""), Str("a@x.com")}
MessageValues == {Undefined, Str(""), Str("hi"), Num("5")}

\* The step a contact handler goes to after its owner notification, were the
\* failure of that send swallowed instead of thrown.
AfterOwnerSwallowed(v, ok) == IF v = "enhanced" THEN "reply" ELSE "ok"

\* After `await transporter.sendMail(owner)`: a rejection goes to the catch
\* block; otherwise the basic variant responds and the enhanced variant goes
\* on to the auto-reply.
AfterOwner(v, ok) ==
  IF ~ok THEN "catch" ELSE IF v = "enhanced" THEN "reply" ELSE "ok"

\* A request to /api/contact as it arrives.
NewContactReq(n, e, m) ==
  [kind |-> "contact", name |-> n, email |-> e, message |-> m,
   pc |-> "start", status |-> 0, failed |-> "none",
   before |-> Len(contacts), sentBefore |-> Len(sends)]

NewContactsReq ==
  [kind |-> "contacts", name |-> Undefined, email |-> Undefined,
   message |-> Undefined, pc |-> "find", status |-> 0, failed |-> "none",
   before |-> Len(contacts), sentBefore |-> Len(sends)]

Respond(r, code) == [r EXCEPT !.pc = "done", !.status = code]
Fail(r, step) == [r EXCEPT !.pc = "done", !.status = 500, !.failed = step]

\* POST /api/contact up to its first await: the validation, then
\* new Contact(...).save() is issued.
PostContact(n, e, m) ==
  /\ Len(creqs) < MaxContactReqs
  /\ LET r == NewContactReq(n, e, m) IN
       creqs' = Append(creqs,
                  IF MissingRequired(n, e, m) THEN Respond(r, 400)
                  ELSE [r EXCEPT !.pc = "save"])
  /\ UNCHANGED <<variant, contacts, sends>>
  /\ UNCHANGED fileVars

\* save() resolves: the record is in the collection.  The handler builds the
\* owner notification and calls sendMail, unless building it throws.
ContactSaved(i) ==
  /\ creqs[i].kind = "contact" /\ creqs[i].pc = "save"
  /\ contacts' = Append(contacts,
       [req |-> i, name |-> CastString(creqs[i].name),
        email |-> CastString(creqs[i].email),
        message |-> CastString(creqs[i].message), status |-> "unread"])
  /\ IF HtmlThrows(creqs[i].message)
       THEN /\ creqs' = [creqs EXCEPT ![i] = Fail(@, "html")]
            /\ sends' = sends
       ELSE /\ creqs' = [creqs EXCEPT ![i].pc = "owner"]
            /\ sends' = Append(sends, [req |-> i, to |-> "owner",
                                       result |-> "pending"])
  /\ UNCHANGED variant
  /\ UNCHANGED fileVars

\* save() rejects: the catch block responds 500.
ContactSaveFails(i) ==
  /\ creqs[i].kind = "contact" /\ creqs[i].pc = "save"
  /\ creqs' = [creqs EXCEPT ![i] = Fail(@, "save")]
  /\ UNCHANGED <<variant, contacts, sends>>
  /\ UNCHANGED fileVars

\* The relay's answer to the sendMail call of request i to `to`.
SetResult(s, i, to, ok) ==
  [k \in DOMAIN s |->
     IF s[k].req = i /\ s[k].to = to
       THEN [s[k] EXCEPT !.result = IF ok THEN "ok" ELSE "failed"]
       ELSE s[k]]

\* The owner notification resolves (ok) or rejects.
OwnerSendDone(i, ok) ==
  /\ creqs[i].kind = "contact" /\ creqs[i].pc = "owner"
  /\ LET next == AfterOwner(variant, ok)
         answered == SetResult(sends, i, "owner", ok) IN
       /\ creqs' = [creqs EXCEPT ![i] =
            IF next = "catch" THEN Fail(@, "owner")
            ELSE IF next = "reply" THEN [@ EXCEPT !.pc = "reply"]
            ELSE Respond(@, 200)]
       /\ sends' = IF next = "reply"
                     THEN Append(answered, [req |-> i, to |-> "sender",
                                            result |-> "pending"])
                     ELSE answered
  /\ UNCHANGED <<variant, contacts>>
  /\ UNCHANGED fileVars

\* The auto-reply (enhanced variant) resolves or rejects.
ReplySendDone(i, ok) ==
  /\ creqs[i].kind = "contact" /\ creqs[i].pc = "reply"
  /\ creqs' = [creqs EXCEPT ![i] =
       IF ok THEN Respond(@, 200) ELSE Fail(@, "reply")]
  /\ sends' = SetResult(sends, i, "sender", ok)
  /\ UNCHANGED <<variant, contacts>>
  /\ UNCHANGED fileVars

\* GET /api/contacts (enhanced variant only) up to its await.
GetContacts ==
  /\ variant = "enhanced"
  /\ Len(creqs) < MaxContactReqs
  /\ creqs' = Append(creqs, NewContactsReq)
  /\ UNCHANGED <<variant, contacts, sends>>
  /\ UNCHANGED fileVars

\* Contact.find().sort({date: -1}) resolves or rejects.
ContactsFound(i, ok) ==
  /\ creqs[i].kind = "contacts" /\ creqs[i].pc = "find"
  /\ creqs' = [creqs EXCEPT ![i] =
       IF ok THEN Respond(@, 200) ELSE Fail(@, "find")]
  /\ UNCHANGED <<variant, contacts, sends>>
  /\ UNCHANGED fileVars

NextContact ==
  \/ \E n \in NameValues, e \in EmailValues, m \in MessageValues :
       PostContact(n, e, m)
  \/ \E i \in DOMAIN creqs : ContactSaved(i)
  \/ \E i \in DOMAIN creqs : ContactSaveFails(i)
  \/ \E i \in DOMAIN creqs, ok \in BOOLEAN : OwnerSendDone(i, ok)
  \/ \E i \in DOMAIN creqs, ok \in BOOLEAN : ReplySendDone(i, ok)
  \/ GetContacts
  \/ \E i \in DOMAIN creqs, ok \in BOOLEAN : ContactsFound(i, ok)

----------------------------------------------------------------------------
\* Uploads: multer's disk storage, the File collection and the handlers of
\* /api/upload and /api/files.

\* limits: { fileSize: 50 * 1024 * 1024 }
FileSizeLimit == 50 * 1024 * 1024

\* multer with no size limit at all.
StoreOutcomesNoLimit(size) == {TRUE}

\* Whether multer accepts a file of `size` bytes.  Below the limit it does,
\* above it it fails with LIMIT_FILE_SIZE.  A file of exactly fileSize bytes
\* is accepted by the multipart parsers that fail once more than fileSize
\* bytes have arrived and rejected by those that fail once fileSize bytes
\* have arrived; the source does not say which one is installed.
StoreOutcomes(size) ==
  IF size < FileSizeLimit THEN {TRUE}
  ELSE IF size > FileSizeLimit THEN {FALSE}
  ELSE BOOLEAN

Sizes == {FileSizeLimit - 1, FileSizeLimit, FileSizeLimit + 1}

\* Strings whose characters matter are sequences of one-character strings.
DigitChars == <<"0", "1", "2", "3", "4", "5", "6", "7", "8", "9">>

\* The decimal text of a natural number, as `+` with a string renders it.
RECURSIVE Digits(_)
Digits(n) ==
  IF n < 10 THEN <<DigitChars[n + 1]>>
  ELSE Digits(n \div 10) \o <<DigitChars[(n % 10) + 1]>>

\* The index of the last "." of name at or below k, 0 when there is none.
RECURSIVE LastDot(_, _)
LastDot(name, k) ==
  IF k = 0 THEN 0
  ELSE IF name[k] = "." THEN k
  ELSE LastDot(name, k - 1)

\* path.extname: from the last "." to the end; empty when there is no "." or
\* when the only one starts the name.
ExtName(name) ==
  LET d == LastDot(name, Len(name)) IN
    IF d <= 1 THEN <<>> ELSE SubSeq(name, d, Len(name))

\* Date.now() + '-' + Math.round(Math.random() * 1E9) + path.extname(...)
StoredName(ts, rnd, original) ==
  Digits(ts) \o <<"-">> \o Digits(rnd) \o ExtName(original)

ATxt == <<"a", ".", "t", "x", "t">>
BTxt == <<"b", ".", "t", "x", "t">>

\* A path parameter :id that is no ObjectId (such as "abc"); the ids the
\* collection assigns are 1, 2, ...
InvalidId == 0
ValidObjectId(id) == id # InvalidId

\* The ids a client may name: one that is no ObjectId, every id assigned so
\* far, and one that no document has.
TargetIds == {InvalidId} \cup (1 .. nextId)

NoText == <<"-">>

NewReq(kind) ==
  [kind |-> kind, pc |-> "start", status |-> 0, failed |-> "none",
   id |-> 0, size |-> 0, name |-> <<>>, date |-> 0, fid |-> 0,
   orig |-> NoText, desc |-> NoText, found |-> <<>>, listed |-> <<>>,
   doneBefore |-> {}]

\* History, kept by the requests that read the stores (list, delete): the
\* uploads and deletes that had been answered with success when it arrived.
AnsweredOk ==
  {j \in DOMAIN reqs :
     reqs[j].status = 200 /\ reqs[j].kind \in {"upload", "delete"}}

\* What Date.now() may return: the clock never runs backwards.
ClockReadings == now .. (MaxTime + 1)

\* What Math.round(Math.random() * 1E9) may return, of its 1E9 + 1 values.
RandomValues == {0, 1}

\* The handler's promise rejects outside any try/catch (basic variant).
\* Express 4, the only major version that registers the route '*' of lines
\* 129 and 416, does not pass the rejection of an async handler on to an
\* error handler: nothing answers the request.
Reject(r, step) == [r EXCEPT !.pc = "rejected", !.failed = step]

\* An `await` of the basic variant's upload and list handlers rejects: they
\* have no try/catch; the enhanced ones answer 500 from their catch block.
Uncaught(r, step) == IF variant = "basic" THEN Reject(r, step) ELSE Fail(r, step)

\* fs: writing a file under a name, removing a name.
WriteFile(d, name, bytes) ==
  [n \in DOMAIN d \cup {name} |-> IF n = name THEN bytes ELSE d[n]]
RemoveFile(d, name) == [n \in DOMAIN d \ {name} |-> d[n]]

\* Model.save() of a new document under the next _id.
InsertDoc(fs, id, doc) ==
  [k \in DOMAIN fs \cup {id} |-> IF k = id THEN doc ELSE fs[k]]

\* A findByIdAndDelete that removes nothing.
DeleteByIdNothing(fs, id) == fs

\* File.findByIdAndDelete(id)
DeleteById(fs, id) == [k \in DOMAIN fs \ {id} |-> fs[k]]

\* fs.unlinkSync with no existence check, whatever the variant.
UnlinkThrowsUnchecked(v, d, name) == name \notin DOMAIN d

\* Whether the delete handler's unlink throws ENOENT: the basic variant calls
\* fs.unlinkSync directly, the enhanced one only if fs.existsSync(filePath).
UnlinkThrows(v, d, name) == v = "basic" /\ name \notin DOMAIN d

\* A delete handler that leaves the blob where it is.
AfterUnlinkKept(d, name) == d

\* uploads/ after the delete handler's unlink step.
AfterUnlink(d, name) == RemoveFile(d, name)

\* An upload that an earlier run of the server stored, at time 0: its
\* document has _id 1 and its bytes are tagged 0 in uploads/.
StoredDoc ==
  [filename |-> StoredName(0, 0, ATxt), originalName |-> ATxt,
   mimetype |-> "text/plain", size |-> FileSizeLimit - 1,
   description |-> <<>>, uploadDate |-> 0]

\* POST /api/upload with no file part: multer leaves req.file undefined and
\* the handler answers 400.
PostUploadNoFile ==
  /\ Len(reqs) < MaxFileReqs
  /\ reqs' = Append(reqs, Respond(NewReq("upload"), 400))
  /\ UNCHANGED <<variant, now, nextId, files, disk, unlinked>>
  /\ UNCHANGED contactVars

\* POST /api/upload with a file part: multer names the file and starts
\* writing it to uploads/.
PostUpload(size, rnd, t) ==
  /\ Len(reqs) < MaxFileReqs
  /\ t \in ClockReadings
  /\ now' = t
  /\ reqs' = Append(reqs,
       [NewReq("upload") EXCEPT !.pc = "store", !.size = size,
          !.orig = ATxt,
          !.name = StoredName(t, rnd, ATxt)])
  /\ UNCHANGED <<variant, nextId, files, disk, unlinked>>
  /\ UNCHANGED contactVars

\* multer is done with the file.  Accepted: the blob is in uploads/ and the
\* handler runs to `await newFile.save()`; the default of uploadDate is the
\* clock as last read.  Over the limit: multer removes
\* the file it was writing and passes the error on, which is answered 500.
StoreDone(i, accepted) ==
  /\ reqs[i].kind = "upload" /\ reqs[i].pc = "store"
  /\ accepted \in StoreOutcomes(reqs[i].size)
  /\ IF accepted
       THEN /\ disk' = WriteFile(disk, reqs[i].name, i)
            /\ unlinked' = unlinked
            /\ reqs' = [reqs EXCEPT ![i].pc = "save", ![i].date = now]
       ELSE /\ disk' = RemoveFile(disk, reqs[i].name)
            /\ unlinked' = unlinked \cup {reqs[i].name}
            /\ reqs' = [reqs EXCEPT ![i] = Fail(@, "limit")]
  /\ UNCHANGED <<variant, now, nextId, files>>
  /\ UNCHANGED contactVars

\* The write to uploads/ fails: the error is passed on and answered 500.
StoreFails(i) ==
  /\ reqs[i].kind = "upload" /\ reqs[i].pc = "store"
  /\ reqs' = [reqs EXCEPT ![i] = Fail(@, "store")]
  /\ UNCHANGED <<variant, now, nextId, files, disk, unlinked>>
  /\ UNCHANGED contactVars

\* The document a handler builds from req.file; the basic schema has no
\* description.
NewFileDoc(r) ==
  [filename |-> r.name, originalName |-> r.orig, mimetype |-> "text/plain",
   size |-> r.size,
   description |-> IF variant = "enhanced" /\ r.desc # NoText
                     THEN r.desc ELSE <<>>,
   uploadDate |-> r.date]

\* newFile.save() resolves: the handler answers with the new id.
UploadSaved(i) ==
  /\ reqs[i].kind = "upload" /\ reqs[i].pc = "save"
  /\ files' = InsertDoc(files, nextId, NewFileDoc(reqs[i]))
  /\ nextId' = nextId + 1
  /\ reqs' = [reqs EXCEPT ![i] = Respond([@ EXCEPT !.fid = nextId], 200)]
  /\ UNCHANGED <<variant, now, disk, unlinked>>
  /\ UNCHANGED contactVars

\* newFile.save() rejects.
UploadSaveFails(i) ==
  /\ reqs[i].kind = "upload" /\ reqs[i].pc = "save"
  /\ reqs' = [reqs EXCEPT ![i] = Uncaught(@, "save")]
  /\ UNCHANGED <<variant, now, nextId, files, disk, unlinked>>
  /\ UNCHANGED contactVars

\* GET /api/files up to its await.
GetFiles ==
  /\ Len(reqs) < MaxFileReqs
  /\ reqs' = Append(reqs,
       [NewReq("list") EXCEPT !.pc = "find", !.doneBefore = AnsweredOk])
  /\ UNCHANGED <<variant, now, nextId, files, disk, unlinked>>
  /\ UNCHANGED contactVars

\* The orders sort({uploadDate: -1}) may return: newest first, documents of
\* the same date in any order.
SortedIds(fs) ==
  {s \in [1 .. Cardinality(DOMAIN fs) -> DOMAIN fs] :
     /\ \A a, b \in DOMAIN s : a # b => s[a] # s[b]
     /\ \A a, b \in DOMAIN s :
          a < b => fs[s[a]].uploadDate >= fs[s[b]].uploadDate}

\* files.map(f => ({id, url, originalName, type, size, ...}))
ListEntry(fs, id) ==
  [id |-> id, url |-> fs[id].filename, originalName |-> fs[id].originalName,
   size |-> fs[id].size]

\* File.find().sort(...) resolves: the handler answers with the mapped list.
FilesFound(i) ==
  /\ reqs[i].kind = "list" /\ reqs[i].pc = "find"
  /\ \E s \in SortedIds(files) :
       reqs' = [reqs EXCEPT ![i] =
         Respond([@ EXCEPT !.listed = [k \in DOMAIN s |-> ListEntry(files, s[k])]],
                 200)]
  /\ UNCHANGED <<variant, now, nextId, files, disk, unlinked>>
  /\ UNCHANGED contactVars

\* File.find() rejects.
FilesFindFails(i) ==
  /\ reqs[i].kind = "list" /\ reqs[i].pc = "find"
  /\ reqs' = [reqs EXCEPT ![i] = Uncaught(@, "find")]
  /\ UNCHANGED <<variant, now, nextId, files, disk, unlinked>>
  /\ UNCHANGED contactVars

\* PUT /api/files/:id (enhanced variant) up to its await; NoText stands for a
\* key the body does not hold.
PutFile(id, orig, desc) ==
  /\ variant = "enhanced"
  /\ Len(reqs) < MaxFileReqs
  /\ id \in TargetIds
  /\ reqs' = Append(reqs,
       [NewReq("update") EXCEPT !.pc = "update", !.id = id,
          !.orig = orig, !.desc = desc])
  /\ UNCHANGED <<variant, now, nextId, files, disk, unlinked>>
  /\ UNCHANGED contactVars

\* findByIdAndUpdate's $set of { originalName, description }.  A key that is
\* undefined is dropped from the update or stored as null (an empty value),
\* by the version of Mongoose: `strip` says which.
ApplyUpdate(doc, orig, desc, strip) ==
  [doc EXCEPT
     !.originalName = IF orig # NoText THEN orig
                      ELSE IF strip THEN @ ELSE <<>>,
     !.description = IF desc # NoText THEN desc
                     ELSE IF strip THEN @ ELSE <<>>]

\* File.findByIdAndUpdate resolves or throws its CastError: an :id that is
\* no ObjectId goes to the catch block (500), an id of no document gives
\* null (404), otherwise the document is updated (200).
FileUpdated(i, strip) ==
  /\ reqs[i].kind = "update" /\ reqs[i].pc = "update"
  /\ LET id == reqs[i].id IN
       IF ~ValidObjectId(id)
         THEN /\ reqs' = [reqs EXCEPT ![i] = Fail(@, "cast")]
              /\ files' = files
       ELSE IF id \notin DOMAIN files
         THEN /\ reqs' = [reqs EXCEPT ![i] = Respond(@, 404)]
              /\ files' = files
       ELSE /\ files' = [files EXCEPT ![id] =
                 ApplyUpdate(@, reqs[i].orig, reqs[i].desc, strip)]
            /\ reqs' = [reqs EXCEPT ![i] = Respond(@, 200)]
  /\ UNCHANGED <<variant, now, nextId, disk, unlinked>>
  /\ UNCHANGED contactVars

\* File.findByIdAndUpdate rejects.
FileUpdateFails(i) ==
  /\ reqs[i].kind = "update" /\ reqs[i].pc = "update"
  /\ reqs' = [reqs EXCEPT ![i] = Fail(@, "db")]
  /\ UNCHANGED <<variant, now, nextId, files, disk, unlinked>>
  /\ UNCHANGED contactVars

\* DELETE /api/files/:id up to `await File.findById`.
DeleteFile(id) ==
  /\ Len(reqs) < MaxFileReqs
  /\ id \in TargetIds
  /\ reqs' = Append(reqs,
       [NewReq("delete") EXCEPT !.pc = "find", !.id = id,
                                !.doneBefore = AnsweredOk])
  /\ UNCHANGED <<variant, now, nextId, files, disk, unlinked>>
  /\ UNCHANGED contactVars

\* File.findById resolves with the document or null, or throws its CastError.
DeleteFound(i) ==
  /\ reqs[i].kind = "delete" /\ reqs[i].pc = "find"
  /\ LET id == reqs[i].id IN
       reqs' = [reqs EXCEPT ![i] =
         IF ~ValidObjectId(id) THEN Fail(@, "cast")
         ELSE [@ EXCEPT !.pc = "unlink",
                        !.found = IF id \in DOMAIN files
                                    THEN <<files[id]>> ELSE <<>>]]
  /\ UNCHANGED <<variant, now, nextId, files, disk, unlinked>>
  /\ UNCHANGED contactVars

\* File.findById rejects.
DeleteFindFails(i) ==
  /\ reqs[i].kind = "delete" /\ reqs[i].pc = "find"
  /\ reqs' = [reqs EXCEPT ![i] = Fail(@, "db")]
  /\ UNCHANGED <<variant, now, nextId, files, disk, unlinked>>
  /\ UNCHANGED contactVars

\* The handler resumes with the result of findById.  No document: the basic
\* variant answers success, the enhanced one 404.  A document: the blob is
\* unlinked and findByIdAndDelete is issued.
DeleteUnlink(i) ==
  /\ reqs[i].kind = "delete" /\ reqs[i].pc = "unlink"
  /\ IF reqs[i].found = <<>>
       THEN /\ reqs' = [reqs EXCEPT ![i] =
                 Respond(@, IF variant = "basic" THEN 200 ELSE 404)]
            /\ UNCHANGED <<disk, unlinked>>
       ELSE LET name == reqs[i].found[1].filename IN
              IF UnlinkThrows(variant, disk, name)
                THEN /\ reqs' = [reqs EXCEPT ![i] = Fail(@, "enoent")]
                     /\ UNCHANGED <<disk, unlinked>>
                ELSE /\ disk' = AfterUnlink(disk, name)
                     /\ unlinked' = IF name \in DOMAIN disk /\ disk' # disk
                                      THEN unlinked \cup {name} ELSE unlinked
                     /\ reqs' = [reqs EXCEPT ![i].pc = "remove"]
  /\ UNCHANGED <<variant, now, nextId, files>>
  /\ UNCHANGED contactVars

\* File.findByIdAndDelete resolves (with the document, or with null when it
\* is gone already): the handler answers success.
DeleteRemoved(i) ==
  /\ reqs[i].kind = "delete" /\ reqs[i].pc = "remove"
  /\ files' = DeleteById(files, reqs[i].id)
  /\ reqs' = [reqs EXCEPT ![i] = Respond(@, 200)]
  /\ UNCHANGED <<variant, now, nextId, disk, unlinked>>
  /\ UNCHANGED contactVars

\* File.findByIdAndDelete rejects.
DeleteRemoveFails(i) ==
  /\ reqs[i].kind = "delete" /\ reqs[i].pc = "remove"
  /\ reqs' = [reqs EXCEPT ![i] = Fail(@, "db")]
  /\ UNCHANGED <<variant, now, nextId, files, disk, unlinked>>
  /\ UNCHANGED contactVars

\* The bodies of PUT: a new name only, a new description only.
Updates == {[orig |-> BTxt, desc |-> NoText], [orig |-> NoText, desc |-> <<"d">>]}

UploadSteps(S) ==
  \/ PostUploadNoFile
  \/ \E size \in S, rnd \in RandomValues, t \in ClockReadings :
       PostUpload(size, rnd, t)
  \/ \E i \in DOMAIN reqs, accepted \in BOOLEAN : StoreDone(i, accepted)
  \/ \E i \in DOMAIN reqs : StoreFails(i)
  \/ \E i \in DOMAIN reqs : UploadSaved(i)
  \/ \E i \in DOMAIN reqs : UploadSaveFails(i)

ListSteps ==
  \/ GetFiles
  \/ \E i \in DOMAIN reqs : FilesFound(i)
  \/ \E i \in DOMAIN reqs : FilesFindFails(i)

UpdateSteps ==
  \/ \E id \in TargetIds, u \in Updates : PutFile(id, u.orig, u.desc)
  \/ \E i \in DOMAIN reqs, strip \in BOOLEAN : FileUpdated(i, strip)
  \/ \E i \in DOMAIN reqs : FileUpdateFails(i)

DeleteSteps ==
  \/ \E id \in TargetIds : DeleteFile(id)
  \/ \E i \in DOMAIN reqs : DeleteFound(i)
  \/ \E i \in DOMAIN reqs : DeleteFindFails(i)
  \/ \E i \in DOMAIN reqs : DeleteUnlink(i)
  \/ \E i \in DOMAIN reqs : DeleteRemoved(i)
  \/ \E i \in DOMAIN reqs : DeleteRemoveFails(i)

\* Every request to /api/upload and /api/files.
NextFiles == UploadSteps(Sizes) \/ ListSteps \/ UpdateSteps \/ DeleteSteps

Init ==
  /\ variant \in Variants
  /\ contacts = <<>>
  /\ sends = <<>>
  /\ creqs = <<>>
  /\ now = 1
  /\ \/ /\ nextId = 1
        /\ files = <<>>
        /\ disk = <<>>
     \/ /\ nextId = 2
        /\ files = InsertDoc(<<>>, 1, StoredDoc)
        /\ disk = WriteFile(<<>>, StoredDoc.filename, 0)
  /\ unlinked = {}
  /\ reqs = <<>>

SpecContact == Init /\ [][NextContact]_vars
SpecFiles == Init /\ [][NextFiles]_vars

\* The enhanced variant alone.
InitEnhanced == Init /\ variant = "enhanced"

\* Uploads of every size, and listings.
SpecUpload == InitEnhanced /\ [][UploadSteps(Sizes) \/ ListSteps]_vars

\* Every kind of request, the uploads of exactly fileSize bytes (multer
\* accepts them or rejects them).
SpecBlobs ==
  InitEnhanced /\
    [][UploadSteps({FileSizeLimit}) \/ ListSteps \/ UpdateSteps \/ DeleteSteps]_vars

----------------------------------------------------------------------------
\* What the requests see of the stores.
RecordsOf(i) == {k \in DOMAIN contacts : contacts[k].req = i}
SendsOf(i) == {k \in DOMAIN sends : sends[k].req = i}
SendsTo(i, to) == {k \in SendsOf(i) : sends[k].to = to}
ContactReqs == {i \in DOMAIN creqs : creqs[i].kind = "contact"}

\* A required field that is missing or empty, in the words of the claim.
MissingOrEmpty(x) == x = Undefined \/ x = Str("")
Present(x) == ~MissingOrEmpty(x)

\* C1: every POST /api/contact in which name, email or message is missing or
\* empty is answered 400 and has no side effect: no ContactMessage record of
\* it is stored and no email send of it is attempted, and the step that
\* receives it leaves the stored contacts and the attempted sends as they were.
C1_RejectedState ==
  \A i \in ContactReqs :
    (MissingOrEmpty(creqs[i].name) \/ MissingOrEmpty(creqs[i].email)
       \/ MissingOrEmpty(creqs[i].message))
    => /\ creqs[i].status = 400
       /\ creqs[i].pc = "done"
       /\ RecordsOf(i) = {}
       /\ SendsOf(i) = {}

C1_MissingFields400NoSideEffect ==
  /\ []C1_RejectedState
  /\ [][(Len(creqs') > Len(creqs) /\ creqs'[Len(creqs')].status = 400)
          => (contacts' = contacts /\ sends' = sends)]_vars

\* C1's case: a request with only its message empty was answered 400 while an
\* earlier, complete one had been stored and mailed.
C1_Witness ==
  \E i \in ContactReqs :
    /\ Present(creqs[i].name) /\ Present(creqs[i].email)
    /\ creqs[i].message = Str("")
    /\ creqs[i].status = 400
    /\ creqs[i].before > 0 /\ creqs[i].sentBefore > 0

\* C2: a POST /api/contact with all required fields present whose insert
\* succeeded leaves exactly one new ContactMessage record and has made at
\* least one outbound notification attempt; when the relay fails on the owner
\* notification or on the auto-reply, the record is still there.
C2_OneRecordOneAttempt ==
  \A i \in ContactReqs :
    /\ (/\ Present(creqs[i].name) /\ Present(creqs[i].email)
        /\ Present(creqs[i].message)
        /\ creqs[i].pc # "save" /\ creqs[i].failed # "save")
       => (Cardinality(RecordsOf(i)) = 1 /\ SendsOf(i) # {})
    /\ creqs[i].failed \in {"owner", "reply"}
       => Cardinality(RecordsOf(i)) = 1

\* C6: in the enhanced contact handler the steps run in the order validate,
\* insert, owner notification, auto-reply, each started only after the one
\* before it succeeded: a failed insert is answered 500 with no send
\* attempted; after a failed owner send the auto-reply is never attempted; a
\* failed owner send or auto-reply is answered 500 with the record persisted.
C6_StepOrder ==
  variant = "enhanced" =>
    \A i \in ContactReqs :
      /\ creqs[i].status = 400 => (RecordsOf(i) = {} /\ SendsOf(i) = {})
      /\ creqs[i].failed = "save"
           => (creqs[i].status = 500 /\ RecordsOf(i) = {} /\ SendsOf(i) = {})
      /\ SendsOf(i) # {} => Cardinality(RecordsOf(i)) = 1
      /\ \A k \in SendsTo(i, "sender") :
           \E j \in SendsTo(i, "owner") : j < k /\ sends[j].result = "ok"
      /\ (\E j \in SendsTo(i, "owner") : sends[j].result = "failed")
           => (/\ SendsTo(i, "sender") = {}
               /\ creqs[i].status = 500
               /\ Cardinality(RecordsOf(i)) = 1)
      /\ (\E k \in SendsTo(i, "sender") : sends[k].result = "failed")
           => (creqs[i].status = 500 /\ Cardinality(RecordsOf(i)) = 1)
      /\ creqs[i].status = 200
           => (/\ \E j \in SendsTo(i, "owner") : sends[j].result = "ok"
               /\ \E k \in SendsTo(i, "sender") : sends[k].result = "ok")

\* C6's case: one enhanced request whose owner send failed and another whose
\* auto-reply failed, both answered 500.
C6_Witness ==
  /\ variant = "enhanced"
  /\ \E i, j \in ContactReqs :
       /\ creqs[i].failed = "owner" /\ creqs[i].status = 500
       /\ creqs[j].failed = "reply" /\ creqs[j].status = 500

----------------------------------------------------------------------------
\* Uploads: what the requests see of the stores.
ReqsOf(kind) == {i \in DOMAIN reqs : reqs[i].kind = kind}
Answered(i) == reqs[i].pc = "done"
ServiceFailed(i) == reqs[i].failed \in {"db", "store", "save", "find"}

\* The document whose bytes a file of uploads/ holds: tag 0 is the stored
\* upload of Init (_id 1), tag i the upload of request i.
OwnerOf(tag) == IF tag = 0 THEN 1 ELSE reqs[tag].fid

\* The blob stored for document id under `name` is no longer in uploads/.
BlobGone(id, name) == name \notin DOMAIN disk \/ OwnerOf(disk[name]) # id

Listed(l) == {reqs[l].listed[k].id : k \in DOMAIN reqs[l].listed}

\* C3: in the enhanced variant, once a DELETE /api/files/:id of an existing
\* Upload has been answered with success, the blob stored for it and its
\* metadata record are gone, a listing made afterwards does not hold it, and
\* a DELETE of the same id made afterwards is answered 404 (when its own
\* lookup does not fail).
C3_DeleteThenNotFound ==
  variant = "enhanced" =>
    \A d \in ReqsOf("delete") :
      (reqs[d].status = 200 /\ reqs[d].found # <<>>) =>
        /\ reqs[d].id \notin DOMAIN files
        /\ BlobGone(reqs[d].id, reqs[d].found[1].filename)
        /\ \A l \in ReqsOf("list") :
             (d \in reqs[l].doneBefore /\ reqs[l].status = 200)
               => reqs[d].id \notin Listed(l)
        /\ \A e \in ReqsOf("delete") :
             (/\ d \in reqs[e].doneBefore /\ reqs[e].id = reqs[d].id
              /\ Answered(e) /\ ~ServiceFailed(e))
               => reqs[e].status = 404

\* C3's case: a second DELETE of an id, made after the first was answered
\* with success, has been answered 404.
C3_Witness ==
  /\ variant = "enhanced"
  /\ \E d, e \in ReqsOf("delete") :
       /\ reqs[d].status = 200 /\ reqs[d].found # <<>>
       /\ d \in reqs[e].doneBefore /\ reqs[e].id = reqs[d].id
       /\ reqs[e].status = 404

\* C4 as stated: in every reachable state every Upload record of the
\* repository has its blob in uploads/.
C4_EveryRecordHasItsBlob ==
  \A id \in DOMAIN files : files[id].filename \in DOMAIN disk

\* C4 as amended: a record is inserted only once its blob is in uploads/, and
\* its blob is missing only after a handler has unlinked that stored name (a
\* DELETE between its unlink and its record deletion, for good when that
\* deletion fails, or multer discarding a rejected upload of the same name);
\* a record is removed only after its stored name has been unlinked.
C4_BlobMissingOnlyAfterUnlink ==
  /\ [](\A id \in DOMAIN files :
          files[id].filename \in DOMAIN disk \/ files[id].filename \in unlinked)
  /\ [][\A id \in DOMAIN files \ DOMAIN files' :
          files[id].filename \in unlinked]_vars

\* C4's case: a DELETE unlinked the blob and its record deletion failed: the
\* record is left without its blob.
C4_Witness ==
  \E d \in ReqsOf("delete") :
    /\ reqs[d].failed = "db" /\ reqs[d].found # <<>>
    /\ reqs[d].id \in DOMAIN files
    /\ files[reqs[d].id].filename \notin DOMAIN disk
    /\ files[reqs[d].id].filename \in unlinked

\* The uploads that carried a file and that no failing service cut short.
Uploaded == {u \in ReqsOf("upload") :
               reqs[u].name # <<>> /\ Answered(u) /\ ~ServiceFailed(u)}

C7_FailureAnswered500 ==
  \A i \in DOMAIN reqs :
    (reqs[i].failed # "none" /\ reqs[i].pc \in {"done", "rejected"})
      => reqs[i].status = 500

\* The document as it was stored, for the fields no update may touch.
Uploader(id) == {u \in ReqsOf("upload") : reqs[u].fid = id}
OriginalDoc(id) ==
  IF Uploader(id) = {} THEN StoredDoc
  ELSE NewFileDoc(reqs[CHOOSE u \in Uploader(id) : TRUE])

\* The fields of a record that PUT /api/files/:id must leave alone.
UpdateFrame ==
  \A id \in DOMAIN files :
    /\ files[id].filename = OriginalDoc(id).filename
    /\ files[id].mimetype = OriginalDoc(id).mimetype
    /\ files[id].size = OriginalDoc(id).size
    /\ files[id].uploadDate = OriginalDoc(id).uploadDate

\* C8: PUT /api/files/:id on an unknown id is answered 404 and creates no
\* record; on a known id it changes at most originalName and description of
\* that record.
C8_UpdateUnknown404 ==
  /\ \A r \in ReqsOf("update") :
       (/\ Answered(r) /\ ~ServiceFailed(r)
        /\ (~ValidObjectId(reqs[r].id) \/ reqs[r].id >= nextId))
         => reqs[r].status = 404
  /\ UpdateFrame
  /\ \A id \in DOMAIN files : id = 1 \/ Uploader(id) # {}

\* C9: in the enhanced variant two DELETEs of the same existing id that both
\* found the record (they interleaved at their awaits), and whose repository
\* calls did not fail, are both answered without a 500, and after them
\* neither the blob nor the record is left.
C9_ConcurrentDeletesNo500 ==
  variant = "enhanced" =>
    \A d, e \in ReqsOf("delete") :
      (/\ d # e /\ reqs[d].id = reqs[e].id
       /\ reqs[d].found # <<>> /\ reqs[e].found # <<>>
       /\ Answered(d) /\ Answered(e)
       /\ ~ServiceFailed(d) /\ ~ServiceFailed(e))
        => /\ reqs[d].status = 200 /\ reqs[e].status = 200
           /\ reqs[d].id \notin DOMAIN files
           /\ BlobGone(reqs[d].id, reqs[d].found[1].filename)

\* C9's case: two DELETEs of one id both found the record, neither made
\* after the other was answered, and both have been answered.
C9_Witness ==
  /\ variant = "enhanced"
  /\ \E d, e \in ReqsOf("delete") :
       /\ d # e /\ reqs[d].id = reqs[e].id
       /\ reqs[d].found # <<>> /\ reqs[e].found # <<>>
       /\ d \notin reqs[e].doneBefore /\ e \notin reqs[d].doneBefore
       /\ reqs[d].status = 200 /\ reqs[e].status = 200

\* C10: the stored names of any two uploads differ, also of two that arrive
\* at the same timestamp with the same extension: every two live Upload
\* records have different stored names, and no upload writes over the blob
\* of another.
C10_StoredNamesUnique ==
  \A a, b \in DOMAIN files : a # b => files[a].filename # files[b].filename

====
